---- MODULE Spec2Model ----
(***************************************************************************)
(* Model of the WebScrcpy mirroring session engine (src/scrcpy.py) and of  *)
(* the video relay of the web front end (src/app.py).                      *)
(*                                                                         *)
(* Spec      one Scrcpy object driven by one caller thread (scrcpy_start   *)
(*           at most once, scrcpy_stop any number of times), interleaved   *)
(*           with the launcher worker and the three receive workers.       *)
(* LiveSpec  Spec plus weak fairness of the caller's own steps.            *)
(* RelaySpec the shared message_queue of app.py between the video receive  *)
(*           worker (send_video_data) and the video_send_task workers.     *)
(* RegistrySpec  the DeviceManager registry of app.py.                     *)
(* PortSpec  two Scrcpy objects allocating and releasing ports side by     *)
(*           side.                                                         *)
(* AdbSpec   the ADBManager calls of src/adb_manager.py on tool output.    *)
(* ProbeSpec find_available_port on its inputs.                            *)
(* CtlSpec   scrcpy_send_control interleaved with scrcpy_start and         *)
(*           scrcpy_stop.                                                  *)
(* MirrorSpec  the socket.io handlers of app.py on the registry, one       *)
(*           event at a time.                                              *)
(* VideoSpec Spec with the invocations of video_callback counted.          *)
(***************************************************************************)
EXTENDS Integers, Sequences, FiniteSets, TLC

VARIABLES
    \* ---- fields of the Scrcpy object (scrcpy.py:13-27, 160-163) ----
    stop,             \* self.stop
    socks,            \* self.video_socket / audio_socket / control_socket
    thr,              \* self.video_thread / audio_thread / control_thread
    android_thread,   \* self.android_thread: position of start_server
    android_process,  \* self.android_process: the Popen handle
    local_port,       \* self.local_port (0 stands for None)
    \* ---- environment of the session ----
    forwards,         \* local ports that carry a live adb forward
    \* ---- the caller thread ----
    pc,               \* position inside scrcpy_start / scrcpy_stop
    ci,               \* index of the channel the current loop is at
    inStart,          \* scrcpy_stop was entered from scrcpy_start:214
    result,           \* what scrcpy_start returned to its caller
    last,             \* the last call that returned to the caller
    \* ---- history of the run ----
    listing,          \* stdout of the `adb devices` command
    pushRc,           \* exit status of the push command
    fwdRc,            \* exit status of the forward command
    connFail,         \* channel whose connect() raised
    calls,            \* bridge commands issued so far
    rel,              \* release operations performed, per resource
    acq,              \* resources acquired so far
    cbCount,          \* invocations of video_callback
    stopCalls,        \* scrcpy_stop calls made by the caller
    stopRaised,       \* an exception escaped from scrcpy_stop
    \* ---- app.py relay ----
    client_sid,       \* app.py:68 (0 stands for None)
    message_queue,    \* app.py:69
    mirrorDev,        \* the registry entry with is_mirroring set (0: none)
    nsess,            \* Scrcpy objects started successfully so far
    drain,            \* video_send_task workers: position and held message
    recvNext,         \* number of the next chunk read from the video socket
    emitted,          \* chunks emitted to the viewer, in emit order
    \* ---- app.py DeviceManager ----
    devices,          \* self.devices: device id -> entry (Absent: no key)
    nobj,             \* Scrcpy objects constructed by start_mirror
    regLast,          \* the last DeviceManager call and what it returned
    \* ---- two Scrcpy objects allocating ports side by side ----
    ppc,              \* per object: position in setup_adb_forward / stop
    pport,            \* per object: self.local_port (0 stands for None)
    plisten,          \* local ports adb listens on (live forwards)
    pstarts,          \* per object slot: starts made so far
    \* ---- ADBManager (adb_manager.py:9-12) ----
    current_device,   \* self.current_device (<< >> stands for None)
    is_tcp_mode,      \* self.is_tcp_mode
    aLast,            \* the last ADBManager call: inputs, commands, result
    \* ---- calls observed from outside ----
    tlog,             \* teardown operations of the scrcpy_stop run in progress
    fLast,            \* the last find_available_port call and its result
    ctl,              \* the last scrcpy_send_control call and its result
    cbObs             \* video_callback invocations of the running video
                      \* loop: made with the stop flag up (cleared when
                      \* the loop ends), and made with an empty chunk

sessVars   == <<stop, socks, thr, android_thread, android_process, local_port>>
envVars    == <<forwards>>
callerVars == <<pc, ci, inStart, result, last>>
histVars   == <<listing, pushRc, fwdRc, connFail, calls, rel, acq, cbCount,
                stopCalls, stopRaised>>
relayVars  == <<client_sid, message_queue, mirrorDev, nsess, drain, recvNext,
                emitted>>
regVars    == <<devices, nobj, regLast>>
\* everything outside the session / outside the relay
portVars   == <<ppc, pport, plisten, pstarts>>
adbVars    == <<current_device, is_tcp_mode, aLast>>
obsVars    == <<fLast, ctl>>
outerVars  == <<relayVars, regVars, portVars, adbVars, obsVars>>
otherVars  == <<outerVars, cbObs>>
appVars    == <<otherVars, tlog>>
restVars   == <<regVars, portVars, adbVars, obsVars, tlog, cbObs>>
vars       == <<sessVars, envVars, callerVars, histVars, relayVars, regVars,
                portVars, adbVars, tlog, fLast, ctl, cbObs>>

----------------------------------------------------------------------------
(* Bounds *)
MaxStops     == 2   \* scrcpy_stop calls made by the caller
MaxOccupied  == 1   \* ports occupied by other programs, from BASE_PORT up
MaxCallbacks == 1   \* video_callback invocations that are counted
MaxSessions  == 2   \* successful start_mirror requests
MaxChunks    == 3   \* chunks read from the video sockets
MaxObjects   == 3   \* Scrcpy objects constructed by DeviceManager.start_mirror
MaxPortStarts == 2  \* starts per object slot in the port model
MaxListed    == 2   \* devices in one `adb devices` listing
MaxCeiling   == 4   \* max_attempts values tried on find_available_port
MaxRun       == 5   \* consecutive occupied ports from the base
MaxAfterStop == 2   \* callbacks counted once the stop flag is up

(* Program constants *)
BASE_PORT    == 6666
MAX_ATTEMPTS == 100
QUEUE_MAXSIZE == 0   \* queue.Queue() of app.py:69: no upper bound
Devices      == {1, 2}

\* the ports other programs may hold when the probe runs
OccupiedSets == { BASE_PORT..(BASE_PORT + b - 1) : b \in 0..MaxOccupied }

\* app.py:12, 18-23: a registry entry, or no key for the device id
Absent   == [is_mirroring |-> FALSE, scrcpy |-> -1]
NewEntry == [is_mirroring |-> FALSE, scrcpy |-> 0]
NoCall   == [op |-> "none", dev |-> 0, pre |-> Absent, started |-> "n/a",
             ret |-> "none"]

\* the record of an ADBManager call, before any call
NoDevice  == << >>
NoAdbCall == [op |-> "none", ok |-> FALSE, val |-> << >>, msg |-> "",
              cmds |-> << >>, devs |-> << >>, rc |-> 0, out |-> << >>,
              err |-> << >>, cok |-> FALSE, preDev |-> NoDevice,
              preTcp |-> FALSE]

\* two Scrcpy objects, one per device being started
Sess    == {1, 2}

Chan    == {"video", "audio", "control"}
\* a connection order that opens the audio channel first
ChanSeq_audio_first == <<"audio", "video", "control">>
\* scrcpy.py:188-200: the order in which the channels are opened
ChanSeq == <<"video", "audio", "control">>
Res     == Chan \cup {"forward", "process"}
None    == 0

----------------------------------------------------------------------------
(* Text of the device listing, as sequences of characters.                 *)
Header   == <<"L","i","s","t"," ","o","f"," ","d","e","v","i","c","e","s"," ",
              "a","t","t","a","c","h","e","d","\n">>
DeviceId == <<"A","B","C">>
KwDevice == <<"d","e","v","i","c","e">>
Listings ==
    { << >>,                                                 \* adb itself failed
      Header,                                                \* no device at all
      Header \o DeviceId \o <<"\t">> \o KwDevice \o <<"\n">> }

\* Python's `sub in s` on strings
Contains(sub, s) ==
    \E i \in 0..(Len(s) - Len(sub)) : SubSeq(s, i + 1, i + Len(sub)) = sub

\* scrcpy.py:172  `if "device" not in result.stdout`
device_check(out) == Contains(KwDevice, out)

\* a push that reports success whatever the exit status
NoProbe == [op |-> "none", base |-> 0, ceiling |-> 0, run |-> 0, occ |-> {},
            port |-> 0]
NoSend  == [op |-> "none", sock |-> "none", exc |-> "none", ret |-> "none"]

push_ignores_status(rc) == TRUE

\* scrcpy.py:65  push_server_to_device returns False on a non-zero exit
push_server_to_device(rc) == rc = 0

\* scrcpy.py:29-40  linear probe by bind-then-release
RECURSIVE probe(_, _, _, _)
probe(start_port, max_attempts, occ, i) ==
    IF i >= max_attempts THEN None
    ELSE IF (start_port + i) \notin occ THEN start_port + i
    ELSE probe(start_port, max_attempts, occ, i + 1)

\* a probe whose first candidate is start_port + 1
find_available_port_from_one(start_port, max_attempts, occ) ==
    probe(start_port, max_attempts, occ, 1)

find_available_port(start_port, max_attempts, occ) ==
    probe(start_port, max_attempts, occ, 0)

\* threading.Thread.is_alive for a receive worker / the launcher
is_alive(t) == t \in {"handshake", "loop", "recv", "callback",
                      "popen", "loopcheck", "readline", "wait"}

\* a join without a timeout
join_without_timeout(alive, timedOut) == ~alive

\* scrcpy.py:249, 270  thread.join(timeout=3) returns when the thread has
\* finished or when the timeout has elapsed
join_returns(alive, timedOut) == (~alive) \/ timedOut

\* scrcpy.py:83  subprocess.run(cmd, check=True) raises CalledProcessError
\* on a non-zero exit
run_check_raises(rc) == rc # 0

\* scrcpy.py:232, 236  handlers around the socket teardown
swallowed(step, exc) ==
    CASE step = "shutdown" -> exc \in {"OSError"}
      [] step = "close"    -> exc \in {"OSError"}
      [] OTHER             -> FALSE

Bump(f, k) == [f EXCEPT ![k] = @ + 1]

----------------------------------------------------------------------------
Init ==
    /\ stop = FALSE
    /\ socks = [c \in Chan |-> "none"]
    /\ thr = [c \in Chan |-> "none"]
    /\ android_thread = "none"
    /\ android_process = "none"
    /\ local_port = None
    /\ forwards = {}
    /\ pc = "idle" /\ ci = 1 /\ inStart = FALSE
    /\ result = "none" /\ last = "none"
    /\ listing = << >> /\ pushRc = 0 /\ fwdRc = 0 /\ connFail = "none"
    /\ calls = [k \in {"devices", "push", "forward", "popen", "remove",
                        "connect"} |-> 0]
    /\ rel = [r \in Res |-> 0]
    /\ acq = {}
    /\ cbCount = 0
    /\ stopCalls = 0
    /\ stopRaised = FALSE
    /\ client_sid = None /\ message_queue = << >>
    /\ mirrorDev = 0 /\ nsess = 0
    /\ drain = << >> /\ recvNext = 1 /\ emitted = << >>
    /\ devices = [d \in Devices |-> Absent]
    /\ nobj = 0
    /\ regLast = NoCall
    /\ ppc = [x \in Sess |-> "idle"]
    /\ pport = [x \in Sess |-> None]
    /\ plisten = {}
    /\ pstarts = [x \in Sess |-> 0]
    /\ current_device = NoDevice
    /\ is_tcp_mode = FALSE
    /\ aLast = NoAdbCall
    /\ tlog = << >>
    /\ fLast = NoProbe
    /\ ctl = NoSend
    /\ cbObs = [after |-> 0, empty |-> FALSE]

----------------------------------------------------------------------------
(* scrcpy_start, scrcpy.py:160-215, one action per blocking step.          *)

Chn == ChanSeq[ci]

\* scrcpy.py:160-163.  app.py:35 builds a new Scrcpy for every start, so a
\* session object is started at most once.
StartCall ==
    /\ pc = "idle" /\ result = "none"
    /\ stop' = FALSE
    /\ pc' = "devices"
    /\ UNCHANGED <<socks, thr, android_thread, android_process, local_port,
                   envVars, ci, inStart, result, last, histVars, appVars>>

\* scrcpy.py:166-175
DeviceCheck ==
    /\ pc = "devices"
    /\ \E out \in Listings :
        /\ listing' = out
        /\ calls' = Bump(calls, "devices")
        /\ IF device_check(out)
           THEN pc' = "push" /\ UNCHANGED <<result, last>>
           ELSE pc' = "idle" /\ result' = "false" /\ last' = "start"
    /\ UNCHANGED <<sessVars, envVars, ci, inStart, pushRc, fwdRc, connFail,
                   rel, acq, cbCount, stopCalls, stopRaised, appVars>>

\* scrcpy.py:177-179 with push_server_to_device, scrcpy.py:57-68
Push ==
    /\ pc = "push"
    /\ \E rc \in {0, 1} :
        /\ pushRc' = rc
        /\ calls' = Bump(calls, "push")
        /\ IF push_server_to_device(rc)
           THEN pc' = "alloc" /\ UNCHANGED <<result, last>>
           ELSE pc' = "idle" /\ result' = "false" /\ last' = "start"
    /\ UNCHANGED <<sessVars, envVars, ci, inStart, listing, fwdRc, connFail,
                   rel, acq, cbCount, stopCalls, stopRaised, appVars>>

\* scrcpy.py:70-75: cleanup_adb_forward of a stale forward, then the probe,
\* which meets the ports other programs hold at that moment.
\* The exception of find_available_port (scrcpy.py:40) escapes scrcpy_start.
Alloc ==
    /\ pc = "alloc"
    /\ \E occupied \in OccupiedSets :
       LET stale == local_port # None
           fw    == IF stale THEN forwards \ {local_port} ELSE forwards
           port  == find_available_port(BASE_PORT, MAX_ATTEMPTS, occupied \cup fw)
       IN /\ forwards' = fw
          /\ calls' = IF stale THEN Bump(calls, "remove") ELSE calls
          /\ rel' = IF stale THEN Bump(rel, "forward") ELSE rel
          /\ IF port = None
             THEN /\ local_port' = None
                  /\ pc' = "idle" /\ result' = "raised" /\ last' = "start"
             ELSE /\ local_port' = port
                  /\ pc' = "forward" /\ UNCHANGED <<result, last>>
    /\ UNCHANGED <<stop, socks, thr, android_thread, android_process,
                   ci, inStart, listing, pushRc, fwdRc, connFail, acq, cbCount,
                   stopCalls, stopRaised, appVars>>

\* scrcpy.py:76-83, called from scrcpy.py:181 outside the try block
Forward ==
    /\ pc = "forward"
    /\ \E rc \in {0, 1} :
        /\ fwdRc' = rc
        /\ calls' = Bump(calls, "forward")
        /\ IF run_check_raises(rc)
           THEN /\ pc' = "idle" /\ result' = "raised" /\ last' = "start"
                /\ UNCHANGED <<forwards, acq>>
           ELSE /\ forwards' = forwards \cup {local_port}
                /\ acq' = acq \cup {"forward"}
                /\ pc' = "launch" /\ UNCHANGED <<result, last>>
    /\ UNCHANGED <<sessVars, ci, inStart, listing, pushRc, connFail,
                   rel, cbCount, stopCalls, stopRaised, appVars>>

\* scrcpy.py:182-184
Launch ==
    /\ pc = "launch"
    /\ android_thread' = "popen"
    /\ pc' = "connect" /\ ci' = 1
    /\ UNCHANGED <<stop, socks, thr, android_process, local_port, envVars,
                   inStart, result, last, histVars, appVars>>

\* scrcpy.py:188-200, one channel per step; scrcpy.py:212-214 on failure
Connect ==
    /\ pc = "connect"
    /\ \E ok \in BOOLEAN :
        /\ socks' = [socks EXCEPT ![Chn] = IF ok THEN "connected" ELSE "created"]
        /\ acq' = acq \cup {Chn}
        /\ calls' = Bump(calls, "connect")
        /\ IF ok
           THEN /\ IF ci < 3 THEN pc' = pc /\ ci' = ci + 1
                             ELSE pc' = "threads" /\ ci' = 1
                /\ UNCHANGED <<connFail, inStart>>
           ELSE /\ connFail' = Chn
                /\ inStart' = TRUE
                /\ pc' = "t_flag" /\ ci' = 1
    /\ UNCHANGED <<stop, thr, android_thread, android_process, local_port,
                   envVars, result, last, listing, pushRc, fwdRc, rel,
                   cbCount, stopCalls, stopRaised, appVars>>

\* scrcpy.py:202-204
Threads ==
    /\ pc = "threads"
    /\ thr' = [c \in Chan |-> "new"]
    /\ pc' = "startthr" /\ ci' = 1
    /\ UNCHANGED <<stop, socks, android_thread, android_process, local_port,
                   envVars, inStart, result, last, histVars, appVars>>

\* scrcpy.py:205-207
StartThr ==
    /\ pc = "startthr"
    /\ thr' = [thr EXCEPT ![Chn] = "handshake"]
    /\ IF ci < 3 THEN pc' = pc /\ ci' = ci + 1
                 ELSE pc' = "ret_true" /\ ci' = 1
    /\ UNCHANGED <<stop, socks, android_thread, android_process, local_port,
                   envVars, inStart, result, last, histVars, appVars>>

\* scrcpy.py:208-210
RetTrue ==
    /\ pc = "ret_true"
    /\ result' = "true" /\ last' = "start"
    /\ pc' = "idle"
    /\ UNCHANGED <<sessVars, envVars, ci, inStart, histVars, appVars>>

StartStep ==
    \/ StartCall \/ DeviceCheck \/ Push \/ Alloc \/ Forward \/ Launch
    \/ Connect \/ Threads \/ StartThr \/ RetTrue

----------------------------------------------------------------------------
(* scrcpy_stop, scrcpy.py:217-282.                                         *)

\* the caller invokes scrcpy_stop (app.py:30, 47)
StopCall ==
    /\ pc = "idle" /\ stopCalls < MaxStops
    /\ stopCalls' = stopCalls + 1
    /\ inStart' = FALSE
    /\ pc' = "t_flag"
    /\ UNCHANGED <<sessVars, envVars, ci, result, last, listing, pushRc, fwdRc,
                   connFail, calls, rel, acq, cbCount, stopRaised, appVars>>

\* a teardown that starts on the sockets without raising the flag
TFlag_skips_flag ==
    /\ pc = "t_flag"
    /\ tlog' = << >>
    /\ pc' = "t_sock" /\ ci' = 1
    /\ UNCHANGED <<sessVars, envVars, inStart, result, last, histVars,
                   otherVars>>

\* scrcpy.py:219
TFlag ==
    /\ pc = "t_flag"
    /\ stop' = TRUE
    /\ tlog' = <<"flag">>
    /\ pc' = "t_sock" /\ ci' = 1
    /\ UNCHANGED <<socks, thr, android_thread, android_process, local_port,
                   envVars, inStart, result, last, histVars, otherVars>>

\* an exception that leaves scrcpy_stop: to the caller, or through the
\* handler of scrcpy.py:212-215 out of scrcpy_start
StopRaises ==
    /\ stopRaised' = TRUE
    /\ pc' = "idle" /\ ci' = 1
    /\ last' = IF inStart THEN "start" ELSE "stop"
    /\ result' = IF inStart THEN "raised" ELSE result
    /\ inStart' = FALSE

\* scrcpy.py:228-237, one socket per step: shutdown, then close.  shutdown
\* of a socket that is not connected raises OSError; close releases the
\* descriptor whether or not it reports an error.
TSock ==
    /\ pc = "t_sock"
    /\ IF socks[Chn] = "none"
       THEN /\ IF ci < 3 THEN pc' = pc /\ ci' = ci + 1
                         ELSE pc' = "t_join" /\ ci' = 1
            /\ UNCHANGED <<socks, rel, stopRaised, last, result, inStart, tlog>>
       ELSE \E e1 \in {"none", "OSError"}, e2 \in {"none", "OSError"} :
            /\ (socks[Chn] # "connected") => e1 = "OSError"
            /\ socks' = [socks EXCEPT ![Chn] = "closed"]
            /\ rel' = Bump(rel, Chn)
            /\ tlog' = Append(tlog, "shutdown_close")
            /\ IF /\ e1 # "none" => swallowed("shutdown", e1)
                  /\ e2 # "none" => swallowed("close", e2)
               THEN /\ IF ci < 3 THEN pc' = pc /\ ci' = ci + 1
                                 ELSE pc' = "t_join" /\ ci' = 1
                    /\ UNCHANGED <<stopRaised, last, result, inStart>>
               ELSE StopRaises
    /\ UNCHANGED <<stop, thr, android_thread, android_process, local_port,
                   envVars, listing, pushRc, fwdRc, connFail, calls, acq,
                   cbCount, stopCalls, otherVars>>

\* scrcpy.py:246-253, one receive worker per step: is_alive(), then join
\* with a timeout.  tlog records the step for every worker object, whether
\* or not is_alive() let the join run.
TJoin ==
    /\ pc = "t_join"
    /\ \/ ~is_alive(thr[Chn])
       \/ \E timedOut \in BOOLEAN : join_returns(is_alive(thr[Chn]), timedOut)
    /\ tlog' = IF thr[Chn] # "none" THEN Append(tlog, "join") ELSE tlog
    /\ IF ci < 3 THEN pc' = pc /\ ci' = ci + 1
                 ELSE pc' = "t_term" /\ ci' = 1
    /\ UNCHANGED <<sessVars, envVars, inStart, result, last, histVars,
                   otherVars>>

\* scrcpy.py:256-266: terminate, wait(timeout=3), kill on TimeoutExpired
TTerm ==
    /\ pc = "t_term"
    /\ IF android_process = "none"
       THEN UNCHANGED <<android_process, rel, tlog>>
       ELSE \E graceful \in BOOLEAN :
            /\ android_process' = "dead"
            /\ rel' = Bump(rel, "process")
            /\ tlog' = Append(tlog, "terminate")
    /\ pc' = "t_joinA"
    /\ UNCHANGED <<stop, socks, thr, android_thread, local_port, envVars, ci,
                   inStart, result, last, listing, pushRc, fwdRc, connFail,
                   calls, acq, cbCount, stopCalls, stopRaised, otherVars>>

\* scrcpy.py:268-274
TJoinA ==
    /\ pc = "t_joinA"
    /\ \/ ~is_alive(android_thread)
       \/ \E timedOut \in BOOLEAN : join_returns(is_alive(android_thread), timedOut)
    /\ tlog' = IF android_thread # "none" THEN Append(tlog, "join_launcher")
                ELSE tlog
    /\ pc' = "t_cleanup"
    /\ UNCHANGED <<sessVars, envVars, ci, inStart, result, last, histVars,
                   otherVars>>

\* scrcpy.py:277-280 with cleanup_adb_forward, scrcpy.py:42-55.  The command
\* runs with check=False; a non-zero exit of `forward --remove` reports that
\* adb no longer has the listener.
TCleanup ==
    /\ pc = "t_cleanup"
    /\ IF local_port # None
       THEN \E rc \in {0, 1} :
            /\ forwards' = forwards \ {local_port}
            /\ calls' = Bump(calls, "remove")
            /\ rel' = Bump(rel, "forward")
            /\ local_port' = None
            /\ tlog' = Append(tlog, "forward_remove")
       ELSE UNCHANGED <<forwards, calls, rel, local_port, tlog>>
    /\ pc' = "t_ret"
    /\ UNCHANGED <<stop, socks, thr, android_thread, android_process,
                   ci, inStart, result, last, listing, pushRc, fwdRc, connFail,
                   acq, cbCount, stopCalls, stopRaised, otherVars>>

\* scrcpy.py:282, and scrcpy.py:215 when the stop ran inside scrcpy_start
TRet ==
    /\ pc = "t_ret"
    /\ pc' = "idle"
    /\ inStart' = FALSE
    /\ last' = IF inStart THEN "start" ELSE "stop"
    /\ result' = IF inStart THEN "false" ELSE result
    /\ tlog' = << >>
    /\ UNCHANGED <<sessVars, envVars, ci, histVars, otherVars>>

StopStep ==
    \/ TFlag \/ TSock \/ TJoin \/ TTerm \/ TJoinA \/ TCleanup \/ TRet

----------------------------------------------------------------------------
(* The launcher worker, start_server, scrcpy.py:85-102.                    *)

\* scrcpy.py:94
LPopen ==
    /\ android_thread = "popen"
    /\ android_process' = "live"
    /\ android_thread' = "loopcheck"
    /\ calls' = Bump(calls, "popen")
    /\ acq' = acq \cup {"process"}
    /\ UNCHANGED <<stop, socks, thr, local_port, envVars, callerVars, listing,
                   pushRc, fwdRc, connFail, rel, cbCount, stopCalls, stopRaised,
                   appVars>>

\* scrcpy.py:95
LLoop ==
    /\ android_thread = "loopcheck"
    /\ android_thread' = IF stop THEN "wait" ELSE "readline"
    /\ UNCHANGED <<stop, socks, thr, android_process, local_port, envVars,
                   callerVars, histVars, appVars>>

\* scrcpy.py:96-100: a line, a blank line, or end of file once the process
\* has exited
LReadline ==
    /\ android_thread = "readline"
    /\ \E line \in {"text", "blank"} :
        /\ (android_process = "dead") => line = "blank"
        /\ android_thread' = IF line = "blank" THEN "wait" ELSE "loopcheck"
    /\ UNCHANGED <<stop, socks, thr, android_process, local_port, envVars,
                   callerVars, histVars, appVars>>

\* scrcpy.py:101-102
LWait ==
    /\ android_thread = "wait"
    /\ android_process = "dead"
    /\ android_thread' = "done"
    /\ UNCHANGED <<stop, socks, thr, android_process, local_port, envVars,
                   callerVars, histVars, appVars>>

\* the capture server exits by itself (its client connections are gone, or
\* the device went away)
ProcessExits ==
    /\ android_process = "live"
    /\ android_process' = "dead"
    /\ UNCHANGED <<stop, socks, thr, android_thread, local_port, envVars,
                   callerVars, histVars, appVars>>

Launcher == LPopen \/ LLoop \/ LReadline \/ LWait

----------------------------------------------------------------------------
(* The receive workers, scrcpy.py:104-158.                                 *)

\* scrcpy.py:107, 126, 144: the handshake read; its result is not looked at,
\* an OSError goes to the outer handler
WHandshake(c) ==
    /\ thr[c] = "handshake"
    /\ thr' = [thr EXCEPT ![c] = IF socks[c] = "connected" THEN "loop" ELSE "done"]
    /\ UNCHANGED <<stop, socks, android_thread, android_process, local_port,
                   envVars, callerVars, histVars, appVars>>

\* a loop that starts its next read whatever the flag says
WLoop_ignores_stop(c) ==
    /\ thr[c] = "loop"
    /\ thr' = [thr EXCEPT ![c] = "recv"]
    /\ UNCHANGED <<stop, socks, android_thread, android_process, local_port,
                   envVars, callerVars, histVars, appVars>>

\* scrcpy.py:108, 127, 145
WLoop(c) ==
    /\ thr[c] = "loop"
    /\ thr' = [thr EXCEPT ![c] = IF stop THEN "done" ELSE "recv"]
    /\ cbObs' = IF c = "video" /\ stop THEN [cbObs EXCEPT !.after = 0]
                ELSE cbObs
    /\ UNCHANGED <<stop, socks, android_thread, android_process, local_port,
                   envVars, callerVars, histVars, outerVars, tlog>>

\* scrcpy.py:111, 130, 148: `if not data: break`
has_data(got) == got = "data"

\* scrcpy.py:110-117, 129-135, 147-154: data, an empty read, or an error.
\* With `observed` the invocations of video_callback (scrcpy.py:113) are
\* counted in cbObs.
Recv(c, observed) ==
    /\ thr[c] = "recv"
    /\ \E got \in {"data", "empty", "error"} :
        /\ (socks[c] # "connected") => got # "data"
        /\ thr' = [thr EXCEPT ![c] =
                     IF has_data(got)
                     THEN (IF c = "video" THEN "callback" ELSE "loop")
                     ELSE "done"]
        /\ cbObs' = IF c # "video" \/ ~observed THEN cbObs
                    ELSE IF has_data(got)
                    THEN [after |-> IF stop /\ cbObs.after < MaxAfterStop
                                    THEN cbObs.after + 1 ELSE cbObs.after,
                          empty |-> cbObs.empty \/ got = "empty"]
                    ELSE [cbObs EXCEPT !.after = 0]
    /\ UNCHANGED <<stop, socks, android_thread, android_process, local_port,
                   envVars, callerVars, histVars, outerVars, tlog>>

\* a receive loop that raises the stop flag when its read fails
WRecv_error_stops_session(c) ==
    /\ thr[c] = "recv"
    /\ \E got \in {"data", "empty", "error"} :
        /\ (socks[c] # "connected") => got # "data"
        /\ thr' = [thr EXCEPT ![c] =
                     IF has_data(got)
                     THEN (IF c = "video" THEN "callback" ELSE "loop")
                     ELSE "done"]
        /\ stop' = IF has_data(got) THEN stop ELSE TRUE
    /\ UNCHANGED <<socks, android_thread, android_process, local_port,
                   envVars, callerVars, histVars, appVars>>

\* scrcpy.py:110-117, 129-135, 147-154
WRecv(c) == Recv(c, FALSE)

\* the same step with the callback invocations counted
WRecvObserved(c) == Recv(c, TRUE)

\* scrcpy.py:113
WCallback ==
    /\ thr["video"] = "callback"
    /\ thr' = [thr EXCEPT !["video"] = "loop"]
    /\ cbCount' = IF cbCount < MaxCallbacks THEN cbCount + 1 ELSE cbCount
    /\ UNCHANGED <<stop, socks, android_thread, android_process, local_port,
                   envVars, callerVars, listing, pushRc, fwdRc, connFail, calls,
                   rel, acq, stopCalls, stopRaised, appVars>>

Worker == WCallback \/ \E c \in Chan : WHandshake(c) \/ WLoop(c) \/ WRecv(c)

WorkerObserved ==
    WCallback \/ \E c \in Chan : WHandshake(c) \/ WLoop(c) \/ WRecvObserved(c)

----------------------------------------------------------------------------
SessionNext ==
    \/ StartStep \/ StopCall \/ StopStep
    \/ Launcher \/ ProcessExits \/ Worker

Next == SessionNext

Spec == Init /\ [][Next]_vars

\* the caller's thread keeps running: a call that has begun takes its next
\* step.  Nothing is assumed about the workers or the remote process.
LiveSpec == Spec /\ WF_vars(StopStep)

----------------------------------------------------------------------------
(* Properties of the session.                                              *)

SockOpen(c)   == socks[c] \in {"created", "connected"}
Returned(op)  == pc = "idle" /\ last = op
InStop        == pc \in {"t_flag", "t_sock", "t_join", "t_term", "t_joinA",
                         "t_cleanup", "t_ret"}
NothingStarted ==
    /\ android_thread = "none" /\ android_process = "none"
    /\ \A c \in Chan : socks[c] = "none" /\ thr[c] = "none"

\* C1: when scrcpy_start returns failure after a channel connection failed,
\* the session has no live forward, no open channel socket and no live
\* remote capture-server process.
C1_NoPartialState ==
    (Returned("start") /\ result = "false" /\ connFail # "none")
        => /\ forwards = {}
           /\ \A c \in Chan : ~SockOpen(c)
           /\ android_process # "live"

\* C2: when the target device id does not appear in the device listing,
\* scrcpy_start returns failure and no push, forward or remote-process
\* launch is ever issued.
C2_DeviceNotFound ==
    (calls["devices"] > 0 /\ ~Contains(DeviceId, listing))
        => /\ calls["push"] = 0 /\ calls["forward"] = 0 /\ calls["popen"] = 0
           /\ (pc = "idle" => result = "false")

\* C3: when the forward-creation command exits non-zero, scrcpy_start has
\* returned a failure result (no exception), local_port is unset, and no
\* launcher worker, remote process or socket exists.
C3_ForwardFailed ==
    (fwdRc # 0 /\ Returned("start"))
        => /\ result = "false"
           /\ local_port = None
           /\ NothingStarted

IdleState ==
    /\ stop
    /\ \A c \in Chan : ~SockOpen(c) /\ ~is_alive(thr[c])
    /\ ~is_alive(android_thread)
    /\ android_process # "live"
    /\ forwards = {}
    /\ local_port = None

\* C5: scrcpy_stop never raises, and whenever a scrcpy_stop call has
\* returned (the first or the second, on a running, partially started or
\* never started session) the session is in the Idle state.
C5_StopIdempotent ==
    /\ ~stopRaised
    /\ Returned("stop") => IdleState

\* C6: after one scrcpy_start followed by one or more scrcpy_stop calls,
\* each resource the start acquired has been released exactly once and no
\* release was performed for a resource it did not acquire.
C6_ReleaseExactlyOnce ==
    (Returned("stop") /\ result # "none")
        => \A r \in Res : rel[r] = (IF r \in acq THEN 1 ELSE 0)

\* C7: after scrcpy_stop has returned, no receive worker and no launcher
\* worker is alive, no channel socket is open, and the session holds no
\* active forward and no live remote process.
C7_TornDownAfterStop ==
    Returned("stop")
        => /\ \A c \in Chan : ~is_alive(thr[c])
           /\ ~is_alive(android_thread)
           /\ \A c \in Chan : ~SockOpen(c)
           /\ Cardinality(forwards) = 0
           /\ android_process # "live"

\* C8: scrcpy_stop never raises and, once entered, always eventually
\* returns, whatever the workers, the remote process and the teardown
\* commands do.
C8_StopReturns ==
    /\ [](~stopRaised)
    /\ InStop ~> (pc = "idle")

C8_Witness ==
    /\ Returned("stop")
    /\ is_alive(thr["video"]) /\ is_alive(android_thread)
    /\ rel["forward"] = 1 /\ rel["process"] = 1

\* C9: the video callback is never invoked before scrcpy_start has returned
\* success to its caller.
C9_CallbackAfterRunning ==
    cbCount > 0 => result = "true"

----------------------------------------------------------------------------
(* The video relay of app.py: the handlers of one viewer connection, the   *)
(* video receive worker handing chunks to send_video_data, and the         *)
(* video_send_task workers.  scrcpy_start is taken as one step here.       *)

sessUnchanged == UNCHANGED <<sessVars, envVars, callerVars, histVars, restVars>>

\* queue.Queue.full(): never full when maxsize is 0
full(q) == QUEUE_MAXSIZE > 0 /\ Len(q) >= QUEUE_MAXSIZE

\* app.py:106-113
handle_connect ==
    /\ client_sid = None
    /\ client_sid' = 1
    /\ UNCHANGED <<message_queue, mirrorDev, nsess, drain, recvNext, emitted>>
    /\ sessUnchanged

\* app.py:155-174 with DeviceManager.start_mirror, app.py:33-43, and
\* DeviceManager.stop_mirror, app.py:45-51
handle_start_mirror(d) ==
    /\ client_sid # None
    /\ nsess < MaxSessions
    /\ LET afterStop == IF mirrorDev # d THEN 0 ELSE mirrorDev
       IN IF afterStop = d
          THEN /\ mirrorDev' = afterStop
               /\ UNCHANGED <<nsess, drain>>
          ELSE \E ok \in BOOLEAN :
               IF ok
               THEN /\ mirrorDev' = d
                    /\ nsess' = nsess + 1
                    /\ drain' = Append(drain, [at |-> "while", msg |-> << >>])
               ELSE /\ mirrorDev' = afterStop
                    /\ UNCHANGED <<nsess, drain>>
    /\ UNCHANGED <<client_sid, message_queue, recvNext, emitted>>
    /\ sessUnchanged

\* app.py:176-183
handle_stop_mirror(d) ==
    /\ client_sid # None
    /\ mirrorDev = d
    /\ mirrorDev' = 0
    /\ UNCHANGED <<client_sid, message_queue, nsess, drain, recvNext, emitted>>
    /\ sessUnchanged

\* app.py:185-194
handle_disconnect ==
    /\ client_sid # None
    /\ client_sid' = None
    /\ mirrorDev' = 0
    /\ UNCHANGED <<message_queue, nsess, drain, recvNext, emitted>>
    /\ sessUnchanged

\* scrcpy.py:110-113 calling send_video_data, app.py:102-104: the video
\* worker of the mirroring session hands over the chunk it has read
send_video_data ==
    /\ mirrorDev # 0
    /\ recvNext <= MaxChunks
    /\ recvNext' = recvNext + 1
    /\ message_queue' =
          IF full(message_queue) THEN message_queue
          ELSE Append(message_queue, <<nsess, recvNext>>)
    /\ UNCHANGED <<client_sid, mirrorDev, nsess, drain, emitted>>
    /\ sessUnchanged

\* app.py:89: the loop condition of video_send_task
drain_while(w) ==
    /\ w \in DOMAIN drain /\ drain[w].at = "while"
    /\ drain' = [drain EXCEPT ![w].at = IF client_sid # None THEN "get" ELSE "done"]
    /\ UNCHANGED <<client_sid, message_queue, mirrorDev, nsess, recvNext, emitted>>
    /\ sessUnchanged

\* app.py:91, 94-95, 99: message_queue.get(timeout=0.01)
drain_get(w) ==
    /\ w \in DOMAIN drain /\ drain[w].at = "get"
    /\ IF message_queue = << >>
       THEN /\ drain' = [drain EXCEPT ![w].at = "while"]
            /\ UNCHANGED message_queue
       ELSE /\ drain' = [drain EXCEPT ![w] = [at |-> "emit", msg |-> Head(message_queue)]]
            /\ message_queue' = Tail(message_queue)
    /\ UNCHANGED <<client_sid, mirrorDev, nsess, recvNext, emitted>>
    /\ sessUnchanged

\* app.py:92-93, 99
drain_emit(w) ==
    /\ w \in DOMAIN drain /\ drain[w].at = "emit"
    /\ emitted' = IF client_sid # None THEN Append(emitted, drain[w].msg) ELSE emitted
    /\ drain' = [drain EXCEPT ![w] = [at |-> "while", msg |-> << >>]]
    /\ UNCHANGED <<client_sid, message_queue, mirrorDev, nsess, recvNext>>
    /\ sessUnchanged

video_send_task == \E w \in 1..MaxSessions : drain_while(w) \/ drain_get(w) \/ drain_emit(w)

RelayNext ==
    \/ handle_connect
    \/ (\E d \in Devices : handle_start_mirror(d))
    \/ (\E d \in Devices : handle_stop_mirror(d))
    \/ handle_disconnect
    \/ send_video_data
    \/ video_send_task

RelaySpec == Init /\ [][RelayNext]_vars

\* C10: the chunks of one session reach the viewer in the order in which
\* they were read from that session's video socket.
C10_VideoInOrder ==
    \A i, j \in DOMAIN emitted :
        (i < j /\ emitted[i][1] = emitted[j][1]) => emitted[i][2] < emitted[j][2]

\* C11: the hand-off queue is bounded: however slow or absent the consumer
\* is, its length stays within a fixed capacity, so it never holds every
\* chunk the video worker has read (MaxChunks of them); the chunk arriving
\* at a full queue is dropped.
C11_QueueBounded ==
    Len(message_queue) < MaxChunks

----------------------------------------------------------------------------
(* DeviceManager, app.py:10-66.  scrcpy_start and scrcpy_stop are taken as *)
(* one step each; scrcpy_start returns True or False, or raises (Forward). *)

regUnchanged == UNCHANGED <<sessVars, envVars, callerVars, histVars, relayVars,
                            portVars, adbVars, obsVars, tlog, cbObs>>

Call(op, d, started, ret) ==
    [op |-> op, dev |-> d, pre |-> devices[d], started |-> started, ret |-> ret]

\* an entry that keeps the Scrcpy object whatever scrcpy_start returned
start_entry_keeps_object(entry, scpy, started) ==
    [is_mirroring |-> (started = "true"), scrcpy |-> scpy]

\* app.py:37-42: the entry after scrcpy_start returned
start_entry(entry, scpy, started) ==
    IF started = "true" THEN [is_mirroring |-> TRUE, scrcpy |-> scpy]
                        ELSE entry

\* app.py:15-25
add_device(d) ==
    /\ IF devices[d] = Absent
       THEN /\ devices' = [devices EXCEPT ![d] = NewEntry]
            /\ regLast' = Call("add_device", d, "n/a", "True")
       ELSE /\ UNCHANGED devices
            /\ regLast' = Call("add_device", d, "n/a", "False")
    /\ UNCHANGED nobj
    /\ regUnchanged

\* app.py:27-31
remove_device(d) ==
    /\ devices' = [devices EXCEPT ![d] = Absent]
    /\ regLast' = Call("remove_device", d, "n/a", "None")
    /\ UNCHANGED nobj
    /\ regUnchanged

\* app.py:33-43
start_mirror(d) ==
    /\ IF devices[d] # Absent /\ ~devices[d].is_mirroring
       THEN /\ nobj < MaxObjects
            /\ nobj' = nobj + 1
            /\ \E started \in {"true", "false", "raised"} :
                /\ devices' = [devices EXCEPT
                                 ![d] = start_entry(@, nobj + 1, started)]
                /\ regLast' = Call("start_mirror", d, started,
                                   CASE started = "true"  -> "True"
                                     [] started = "false" -> "False"
                                     [] OTHER             -> "raised")
       ELSE /\ UNCHANGED <<devices, nobj>>
            /\ regLast' = Call("start_mirror", d, "n/a", "False")
    /\ regUnchanged

\* app.py:45-51
stop_mirror(d) ==
    /\ IF devices[d] # Absent /\ devices[d].is_mirroring
       THEN /\ devices' = [devices EXCEPT ![d] = NewEntry]
            /\ regLast' = Call("stop_mirror", d, "n/a", "True")
       ELSE /\ UNCHANGED devices
            /\ regLast' = Call("stop_mirror", d, "n/a", "False")
    /\ UNCHANGED nobj
    /\ regUnchanged

RegistryNext ==
    \E d \in Devices :
        add_device(d) \/ remove_device(d) \/ start_mirror(d) \/ stop_mirror(d)

RegistrySpec == Init /\ [][RegistryNext]_vars

\* C12: after any sequence of add_device, remove_device, start_mirror and
\* stop_mirror calls every entry holds a session object iff is_mirroring is
\* true; start_mirror on an unknown or already mirroring device returns
\* False, constructs no Scrcpy and leaves the registry as it was; an entry
\* gains a session object only from a start_mirror whose scrcpy_start
\* returned True.
C12_SessionIffMirroring ==
    /\ \A d \in Devices :
          devices[d] # Absent => (devices[d].scrcpy # 0 <=> devices[d].is_mirroring)
    /\ regLast.op = "start_mirror" =>
          /\ (regLast.pre = Absent \/ regLast.pre.is_mirroring)
                => /\ regLast.ret = "False" /\ regLast.started = "n/a"
                   /\ devices[regLast.dev] = regLast.pre
          /\ devices[regLast.dev] # regLast.pre
                => /\ regLast.started = "true" /\ regLast.ret = "True"
                   /\ devices[regLast.dev].is_mirroring
          /\ regLast.started \in {"false", "raised"}
                => devices[regLast.dev] = regLast.pre

C12_Witness ==
    /\ regLast.op = "start_mirror" /\ regLast.started = "false"
    /\ \E d \in Devices : devices[d] # Absent /\ devices[d].is_mirroring

----------------------------------------------------------------------------
(* Port allocation of two Scrcpy objects started by concurrent handlers:   *)
(* setup_adb_forward (scrcpy.py:70-83) and cleanup_adb_forward             *)
(* (scrcpy.py:42-55) of each, interleaved.                                 *)

portUnchanged == UNCHANGED <<sessVars, envVars, callerVars, histVars, relayVars,
                             regVars, adbVars, obsVars, tlog, cbObs>>

\* scrcpy.py:72-75: the probe binds and releases at once, so it only meets
\* the ports that are bound at that moment
p_alloc(x) ==
    /\ ppc[x] = "idle" /\ pstarts[x] < MaxPortStarts
    /\ pstarts' = [pstarts EXCEPT ![x] = @ + 1]
    /\ \E occupied \in OccupiedSets :
       LET port == find_available_port(BASE_PORT, MAX_ATTEMPTS,
                                       occupied \cup plisten)
       IN /\ pport' = [pport EXCEPT ![x] = port]
          /\ ppc' = [ppc EXCEPT ![x] = IF port = None THEN "raised" ELSE "probed"]
    /\ UNCHANGED plisten
    /\ portUnchanged

\* scrcpy.py:76-83: `adb forward tcp:<port> localabstract:scrcpy`; adb
\* rebinds a local port it already listens on
p_forward(x) ==
    /\ ppc[x] = "probed"
    /\ \E rc \in {0, 1} :
        IF run_check_raises(rc)
        THEN /\ ppc' = [ppc EXCEPT ![x] = "raised"]
             /\ UNCHANGED plisten
        ELSE /\ ppc' = [ppc EXCEPT ![x] = "forwarded"]
             /\ plisten' = plisten \cup {pport[x]}
    /\ UNCHANGED <<pport, pstarts>>
    /\ portUnchanged

\* scrcpy.py:42-55, from scrcpy_stop
p_cleanup(x) ==
    /\ ppc[x] \in {"forwarded", "raised"}
    /\ plisten' = IF pport[x] # None THEN plisten \ {pport[x]} ELSE plisten
    /\ pport' = [pport EXCEPT ![x] = None]
    /\ ppc' = [ppc EXCEPT ![x] = "idle"]
    /\ UNCHANGED pstarts
    /\ portUnchanged

PortNext == \E x \in Sess : p_alloc(x) \/ p_forward(x) \/ p_cleanup(x)

PortSpec == Init /\ [][PortNext]_vars

\* C13: two sessions that are both between a successful port allocation
\* and their forward teardown never hold the same local port.
C13_PortsDistinct ==
    \A x, y \in Sess :
        (x # y /\ ppc[x] \in {"probed", "forwarded"}
               /\ ppc[y] \in {"probed", "forwarded"})
            => pport[x] # pport[y]

----------------------------------------------------------------------------
(* ADBManager, adb_manager.py.  Tool output is text: sequences of          *)
(* characters.                                                             *)

UpperCase == <<"A","B","C","D","E","F","G","H","I","J","K","L","M",
               "N","O","P","Q","R","S","T","U","V","W","X","Y","Z">>
LowerCase == <<"a","b","c","d","e","f","g","h","i","j","k","l","m",
               "n","o","p","q","r","s","t","u","v","w","x","y","z">>

\* a lower() that leaves the text as it is
lower_identity(s) == s

\* str.lower()
lower(s) ==
    [i \in DOMAIN s |->
        IF \E k \in DOMAIN UpperCase : UpperCase[k] = s[i]
        THEN LowerCase[CHOOSE k \in DOMAIN UpperCase : UpperCase[k] = s[i]]
        ELSE s[i]]

\* str.split(sep) for a one-character separator
RECURSIVE Split(_, _)
Split(s, sep) ==
    IF \A i \in DOMAIN s : s[i] # sep THEN <<s>>
    ELSE LET i == CHOOSE k \in DOMAIN s :
                      s[k] = sep /\ \A j \in 1..(k - 1) : s[j] # sep
         IN <<SubSeq(s, 1, i - 1)>> \o Split(SubSeq(s, i + 1, Len(s)), sep)

\* truth value of str.strip()
StripNonEmpty(s) == \E i \in DOMAIN s : s[i] \notin {" ", "\t", "\n", "\r"}

\* truth value of a Python tuple: false only when it is empty
truthy(t) == Len(t) > 0

\* adb_manager.py:30-46: (returncode == 0, stdout on success else stderr)
run_adb_command(rc, out, err) ==
    [success |-> rc = 0, output |-> IF rc = 0 THEN out ELSE err]

\* what `adb devices` prints for a list of devices
RECURSIVE render(_)
render(devs) ==
    IF devs = << >> THEN << >>
    ELSE Head(devs).id \o <<"\t">> \o Head(devs).state \o <<"\n">>
         \o render(Tail(devs))

\* adb_manager.py:55-63
RECURSIVE parse_lines(_)
parse_lines(lines) ==
    IF lines = << >> THEN << >>
    ELSE LET line  == Head(lines)
             parts == Split(line, "\t")
         IN (IF StripNonEmpty(line) /\ Len(parts) >= 2
             THEN <<[id |-> parts[1], state |-> parts[2],
                     is_tcp |-> \E i \in DOMAIN parts[1] : parts[1][i] = ":"]>>
             ELSE << >>)
            \o parse_lines(Tail(lines))

\* adb_manager.py:48-64
get_devices(run) ==
    IF ~run.success THEN << >>
    ELSE parse_lines(Tail(Split(run.output, "\n")))

\* a filter that keeps every listed device
usb_devices_all(devs) == devs

\* adb_manager.py:107
usb_devices(devs) == SelectSeq(devs, LAMBDA d : ~d.is_tcp)

TcpId     == <<"1",".","2",":","5">>
StOffline == <<"o","f","f","l","i","n","e">>
ListedDevice == {[id |-> DeviceId, state |-> KwDevice],
                 [id |-> DeviceId, state |-> StOffline],
                 [id |-> TcpId, state |-> KwDevice]}
DevLists  == UNION { [1..n -> ListedDevice] : n \in 0..MaxListed }

WConnected == <<"c","o","n","n","e","c","t","e","d">>
WAlready   == <<"a","l","r","e","a","d","y"," ">> \o WConnected
OutConnected == WConnected \o <<" ","t","o"," ">> \o TcpId
OutAlready   == WAlready \o <<" ","t","o"," ">> \o TcpId
OutUpper     == <<"C">> \o Tail(WConnected)
OutFailed    == <<"f","a","i","l","e","d"," ","t","o"," ","c","o","n","n","e","c","t">>
OutDisc      == <<"d","e","v","i","c","e"," ","d","i","s">> \o WConnected
ConnOutputs  == {<< >>, OutConnected, OutAlready, OutUpper, OutFailed, OutDisc}
\* the outputs above in which the word occurs, in either case
MentionsConnected == {OutConnected, OutAlready, OutUpper, OutDisc}
\* results of one `adb connect`: the stream _run_adb_command does not read
\* (adb_manager.py:44) is left empty
ConnRuns == { r \in [rc : {0, 1}, out : ConnOutputs, err : ConnOutputs] :
                 IF r.rc = 0 THEN r.err = << >> ELSE r.out = << >> }

IpAddr  == "192.168.1.42"
Address(ip) == <<ip, 5555>>

\* adb_manager.py:83-84
connect_ok(run) ==
    LET out_lower == lower(run.output)
    IN run.success /\ (Contains(WConnected, out_lower) \/ Contains(WAlready, out_lower))

adbUnchanged == UNCHANGED <<sessVars, envVars, callerVars, histVars, relayVars,
                            regVars, portVars, obsVars, tlog, cbObs>>

AdbCall(op) == [NoAdbCall EXCEPT !.op = op, !.preDev = current_device,
                                 !.preTcp = is_tcp_mode]

\* adb_manager.py:79-88
connect_to_device ==
    \E r \in ConnRuns :
       LET run == run_adb_command(r.rc, r.out, r.err)
           ok  == connect_ok(run)
       IN /\ current_device' = IF ok THEN Address(IpAddr) ELSE current_device
          /\ is_tcp_mode' = IF ok THEN TRUE ELSE is_tcp_mode
          /\ aLast' = [AdbCall("connect_to_device") EXCEPT
                          !.ok = ok, !.val = run.output, !.cmds = <<"connect">>,
                          !.rc = r.rc, !.out = r.out, !.err = r.err, !.cok = ok]
          /\ adbUnchanged

\* adb_manager.py:90-101
disconnect_device ==
    \E rc \in {0, 1} :
       LET run == run_adb_command(rc, << >>, << >>)
       IN /\ current_device' = IF run.success THEN NoDevice ELSE current_device
          /\ is_tcp_mode' = IF run.success THEN FALSE ELSE is_tcp_mode
          /\ aLast' = [AdbCall("disconnect_device") EXCEPT
                          !.ok = run.success, !.cmds = <<"disconnect">>, !.rc = rc]
          /\ adbUnchanged

\* adb_manager.py:103-127; get_device_ip (adb_manager.py:66-77) yields an
\* address or None
enable_tcp_mode ==
    \E devs \in DevLists, drc \in {0, 1} :
       LET listed == get_devices(run_adb_command(drc, Header \o render(devs), << >>))
           call   == [AdbCall("enable_tcp_mode") EXCEPT !.devs = devs]
       IN /\ IF usb_devices(listed) = << >>
             THEN /\ aLast' = [call EXCEPT !.ok = FALSE, !.msg = "no USB device",
                                           !.cmds = <<"devices">>]
                  /\ UNCHANGED <<current_device, is_tcp_mode>>
             ELSE \E ip \in {"None", IpAddr} :
                  IF ip = "None"
                  THEN /\ aLast' = [call EXCEPT !.ok = FALSE, !.msg = "no device IP",
                                                !.cmds = <<"devices", "ip route">>]
                       /\ UNCHANGED <<current_device, is_tcp_mode>>
                  ELSE \E trc \in {0, 1} :
                       IF trc # 0
                       THEN /\ aLast' = [call EXCEPT
                                           !.ok = FALSE, !.msg = "tcpip failed",
                                           !.cmds = <<"devices", "ip route", "tcpip">>]
                            /\ UNCHANGED <<current_device, is_tcp_mode>>
                       ELSE \E r \in ConnRuns :
                            LET run  == run_adb_command(r.rc, r.out, r.err)
                                cok  == connect_ok(run)
                                cret == <<cok, run.output>>
                            IN /\ current_device' =
                                     IF cok THEN Address(ip) ELSE current_device
                               /\ is_tcp_mode' = IF cok THEN TRUE ELSE is_tcp_mode
                               /\ aLast' = [call EXCEPT
                                     !.ok = truthy(cret),
                                     !.msg = IF truthy(cret) THEN ip
                                             ELSE "connect failed",
                                     !.cmds = <<"devices", "ip route", "tcpip",
                                                "connect">>,
                                     !.rc = r.rc, !.out = r.out, !.err = r.err,
                                     !.cok = cok]
          /\ adbUnchanged

AdbNext == connect_to_device \/ disconnect_device \/ enable_tcp_mode

AdbSpec == Init /\ [][AdbNext]_vars

Issued(cmd) == \E i \in DOMAIN aLast.cmds : aLast.cmds[i] = cmd

\* C14: enable_tcp_mode, once it has issued the connect, returns success
\* exactly when the connect to the device's address succeeded, and a failure
\* otherwise.
C14_EnableFollowsConnect ==
    (aLast.op = "enable_tcp_mode" /\ Issued("connect"))
        => (aLast.ok <=> aLast.cok)

AllListedTcp(devs) ==
    \A i \in DOMAIN devs : \E k \in DOMAIN devs[i].id : devs[i].id[k] = ":"

\* C15: when the listing holds no USB device, enable_tcp_mode returns a
\* failure, issues neither tcpip nor connect, and leaves current_device and
\* is_tcp_mode as they were.
C15_NoUsbNoSwitch ==
    (aLast.op = "enable_tcp_mode" /\ AllListedTcp(aLast.devs))
        => /\ ~aLast.ok
           /\ ~Issued("tcpip")
           /\ ~Issued("connect")
           /\ current_device = aLast.preDev
           /\ is_tcp_mode = aLast.preTcp

C15_Witness ==
    /\ aLast.op = "enable_tcp_mode"
    /\ aLast.devs # << >>
    /\ AllListedTcp(aLast.devs)
    /\ aLast.preDev # NoDevice
    /\ ~aLast.ok

\* the text connect_to_device was given by the tool
ToolOutput == IF aLast.rc = 0 THEN aLast.out ELSE aLast.err

\* C18 as stated: connect_to_device succeeds exactly when the tool's output
\* mentions "connected", whatever the exit status.
C18_SuccessIffMentioned ==
    aLast.op = "connect_to_device"
        => (aLast.ok <=> ToolOutput \in MentionsConnected)

\* C18: connect_to_device succeeds exactly when the tool exited with status 0
\* and its output mentions "connected" in either case; it returns the tool's
\* output verbatim, and records the endpoint only on success.
C18_SuccessIffZeroAndMentioned ==
    aLast.op = "connect_to_device"
        => /\ aLast.ok <=> (aLast.rc = 0 /\ aLast.out \in MentionsConnected)
           /\ aLast.val = ToolOutput
           /\ aLast.ok => (current_device = Address(IpAddr) /\ is_tcp_mode)
           /\ ~aLast.ok => (current_device = aLast.preDev
                            /\ is_tcp_mode = aLast.preTcp)

C18_Witness ==
    /\ aLast.op = "connect_to_device"
    /\ aLast.rc = 0
    /\ aLast.out = OutUpper
    /\ aLast.ok
    /\ aLast.preDev = NoDevice
    /\ current_device = Address(IpAddr)

----------------------------------------------------------------------------
(* find_available_port on its own, scrcpy.py:29-40.                        *)

Bases == {1024, BASE_PORT, 49152}

probeUnchanged == UNCHANGED <<sessVars, envVars, callerVars, histVars, relayVars,
                              regVars, portVars, adbVars, ctl, tlog, cbObs>>

\* a call with base port b, attempt ceiling m, and the ports b .. b+n-1
\* occupied, b+n free, and any of the two ports after it occupied or not
probe_call ==
    \E b \in Bases, m \in 0..MaxCeiling, n \in 0..MaxRun,
       extra \in SUBSET {1, 2} :
       LET occ == (b..(b + n - 1)) \cup { b + n + e : e \in extra }
       IN /\ fLast' = [op |-> "find_available_port", base |-> b, ceiling |-> m,
                       run |-> n, occ |-> occ,
                       port |-> find_available_port(b, m, occ)]
          /\ probeUnchanged

ProbeNext == probe_call

ProbeSpec == Init /\ [][ProbeNext]_vars

\* C16: with the ports base .. base+B-1 occupied and base+B free,
\* find_available_port returns base+B when B is below the attempt ceiling M
\* and raises (no port) when B >= M; the port it returns was not occupied.
C16_ProbeResult ==
    fLast.op = "find_available_port"
        => /\ fLast.run < fLast.ceiling => fLast.port = fLast.base + fLast.run
           /\ fLast.run >= fLast.ceiling => fLast.port = None
           /\ fLast.port \notin fLast.occ

C16_Witness ==
    /\ fLast.op = "find_available_port"
    /\ fLast.base = BASE_PORT
    /\ fLast.run = 3 /\ fLast.ceiling = 4
    /\ fLast.port = BASE_PORT + 3

----------------------------------------------------------------------------
(* scrcpy_send_control, scrcpy.py:284-305, called from the control_data    *)
(* handler (app.py:196-219) on a thread of its own.  It reads only         *)
(* control_socket, which scrcpy_start and scrcpy_stop assign and close, so  *)
(* it is interleaved with the steps of those two.                          *)

ctlUnchanged == UNCHANGED <<sessVars, envVars, callerVars, histVars, relayVars,
                            regVars, portVars, adbVars, fLast, tlog, cbObs>>

\* what socket.send can do on the control socket: complete, or raise.  A
\* socket that was never connected or is already closed cannot complete.
SendOutcomes(sock) ==
    IF sock = "connected"
    THEN {"none", "ConnectionResetError", "ConnectionAbortedError",
          "BrokenPipeError", "OSError", "TypeError"}
    ELSE {"BrokenPipeError", "OSError"}

\* handlers that name the three connection errors only
send_catches_connection_errors(exc) ==
    exc \in {"ConnectionResetError", "ConnectionAbortedError", "BrokenPipeError"}

\* scrcpy.py:296-305: the handlers around the send
send_catches(exc) ==
    \/ exc \in {"ConnectionResetError", "ConnectionAbortedError", "BrokenPipeError"}
    \/ exc \in {"OSError", "TypeError"}     \* except Exception, scrcpy.py:299, 303

\* scrcpy.py:284-305
scrcpy_send_control ==
    /\ IF socks["control"] = "none"
       THEN ctl' = [op |-> "send", sock |-> "none", exc |-> "none",
                    ret |-> "False"]
       ELSE \E exc \in SendOutcomes(socks["control"]) :
            ctl' = [op |-> "send", sock |-> socks["control"], exc |-> exc,
                    ret |-> IF exc = "none" THEN "True"
                            ELSE IF send_catches(exc) THEN "False"
                            ELSE "raised"]
    /\ ctlUnchanged

CtlNext == StartStep \/ StopCall \/ StopStep \/ scrcpy_send_control

CtlSpec == Init /\ [][CtlNext]_vars

\* C17: scrcpy_send_control never raises; it returns False when the control
\* socket is absent, closed, or the send is reset or broken, True only when
\* the send completed, and it leaves sockets, workers, stop flag and port as
\* they were.
C17_SendNeverRaises ==
    /\ [](ctl.op = "send"
            => /\ ctl.ret \in {"True", "False"}
               /\ ctl.sock \in {"none", "created", "closed"} => ctl.ret = "False"
               /\ ctl.exc # "none" => ctl.ret = "False"
               /\ ctl.ret = "True" => (ctl.sock = "connected" /\ ctl.exc = "none"))
    /\ [][ctl' # ctl => UNCHANGED <<sessVars, forwards>>]_vars

C17_Witness ==
    /\ ctl.op = "send"
    /\ ctl.sock = "closed"
    /\ ctl.exc = "OSError"
    /\ ctl.ret = "False"
    /\ socks["control"] = "closed"

----------------------------------------------------------------------------
(* Order of the steps of scrcpy_stop and of scrcpy_start.                  *)

\* position of a teardown operation in scrcpy_stop, scrcpy.py:219-280
Rank(op) ==
    CASE op = "flag"           -> 0
      [] op = "shutdown_close" -> 1
      [] op = "join"           -> 2
      [] op = "terminate"      -> 3
      [] op = "join_launcher"  -> 4
      [] op = "forward_remove" -> 5

AllSocketsDown == \A c \in Chan : socks[c] \in {"none", "closed"}

\* C19: within one scrcpy_stop run the flag is set first, the sockets are
\* shut down and closed before a receive worker is joined, the workers are
\* joined before the process is terminated, the process is terminated before
\* the launcher is joined, and the forward is removed and the port released
\* last.
C19_TeardownOrder ==
    /\ \A i, j \in DOMAIN tlog : i < j => Rank(tlog[i]) <= Rank(tlog[j])
    /\ \A i \in DOMAIN tlog : (tlog[i] = "flag") <=> (i = 1)
    /\ pc \in {"t_sock", "t_join", "t_term", "t_joinA", "t_cleanup", "t_ret"}
          => (stop /\ tlog # << >>)
    /\ pc \in {"t_join", "t_term", "t_joinA", "t_cleanup", "t_ret"}
          => AllSocketsDown
    /\ pc = "t_ret" => local_port = None

C19_Witness ==
    /\ pc = "t_ret"
    /\ tlog = <<"flag", "shutdown_close", "shutdown_close", "shutdown_close",
                "join", "join", "join", "terminate", "join_launcher",
                "forward_remove">>

Position == [c \in Chan |->
               CASE c = "video" -> 1 [] c = "audio" -> 2 [] c = "control" -> 3]

\* C20: scrcpy_start opens exactly three connections, video then audio then
\* control, each with the forward in place and the launcher started; a
\* receive worker is started only when all three are connected, and success
\* is returned only after the three workers were started.
C20_ConnectOrder ==
    /\ [](calls["connect"] <= 3)
    /\ [][ /\ \A c \in Chan :
               (socks[c] = "none" /\ socks'[c] # "none")
                  => /\ local_port # None /\ local_port \in forwards
                     /\ android_thread # "none"
                     /\ calls'["connect"] = Position[c]
                     /\ \A e \in Chan :
                          Position[e] < Position[c] => socks[e] = "connected"
           /\ \A c \in Chan :
               (thr[c] \in {"none", "new"} /\ is_alive(thr'[c]))
                  => /\ calls["connect"] = 3
                     /\ \A e \in Chan : socks[e] = "connected"
           /\ (result # "true" /\ result' = "true")
                  => /\ calls["connect"] = 3
                     /\ \A c \in Chan : thr[c] \notin {"none", "new"}
       ]_vars

C20_Witness ==
    /\ result = "true"
    /\ calls["connect"] = 3
    /\ \A c \in Chan : is_alive(thr[c])

----------------------------------------------------------------------------
(* A channel that fails while the session is running.                      *)

Running == result = "true" /\ ~stop

\* C21: while the session is running, a receive worker that ends on a socket
\* error or on the remote side closing leaves the other two receive workers,
\* the launcher, the remote process, the forward, the port and the stop flag
\* as they were; the ended worker stays ended and the flag stays down until
\* the caller's scrcpy_stop raises it.
C21_ChannelErrorFrame ==
    /\ [][\A c \in Chan :
            (Running /\ is_alive(thr[c]) /\ thr'[c] = "done")
               => /\ \A e \in Chan \ {c} : thr'[e] = thr[e]
                  /\ UNCHANGED <<android_thread, android_process, forwards,
                                 local_port, stop, socks>>]_vars
    /\ [][\A c \in Chan : thr[c] = "done" => thr'[c] = "done"]_vars
    /\ [][(Running /\ stop') => pc = "t_flag"]_vars

C21_Witness ==
    /\ Running
    /\ pc = "idle" /\ stopCalls = 0
    /\ thr["audio"] = "done"
    /\ thr["video"] = "recv" /\ thr["control"] = "recv"
    /\ android_thread = "readline" /\ android_process = "live"
    /\ local_port \in forwards

----------------------------------------------------------------------------
(* The socket.io handlers of app.py on the registry, one event at a time.  *)

Mirroring(d) == devices[d] # Absent /\ devices[d].is_mirroring

HCall(op, d, started, ret) ==
    [op |-> op, dev |-> d, pre |-> devices[d],
     others |-> { x \in Devices \ {d} : Mirroring(x) },
     started |-> started, ret |-> ret]

\* a start_mirror handler that leaves the other sessions running
stop_others_skipped(devs, d) == devs

\* app.py:160-163: stop_mirror (app.py:45-51) on every other mirroring entry
stop_others(devs, d) ==
    [x \in Devices |->
        IF devs[x] # Absent /\ devs[x].is_mirroring /\ x # d
        THEN NewEntry ELSE devs[x]]

\* app.py:155-174 with DeviceManager.start_mirror, app.py:33-43
on_start_mirror(d) ==
    /\ LET stopped == stop_others(devices, d)
       IN IF stopped[d] # Absent /\ ~stopped[d].is_mirroring
          THEN /\ nobj < MaxObjects
               /\ nobj' = nobj + 1
               /\ \E started \in {"true", "false", "raised"} :
                   /\ devices' = [stopped EXCEPT
                                    ![d] = start_entry(@, nobj + 1, started)]
                   /\ regLast' = HCall("on_start_mirror", d, started,
                                       IF started = "raised" THEN "raised"
                                                             ELSE "None")
          ELSE /\ devices' = stopped
               /\ UNCHANGED nobj
               /\ regLast' = HCall("on_start_mirror", d, "n/a", "None")
    /\ regUnchanged

\* app.py:176-183
on_stop_mirror(d) == stop_mirror(d)

\* app.py:185-194
on_disconnect ==
    /\ client_sid' = None
    /\ devices' = [x \in Devices |->
                     IF Mirroring(x) THEN NewEntry ELSE devices[x]]
    /\ regLast' = [op |-> "on_disconnect", dev |-> 0, pre |-> Absent,
                   others |-> { x \in Devices : Mirroring(x) },
                   started |-> "n/a", ret |-> "None"]
    /\ UNCHANGED <<nobj, message_queue, mirrorDev, nsess, drain, recvNext,
                   emitted>>
    /\ UNCHANGED <<sessVars, envVars, callerVars, histVars, portVars, adbVars,
                   obsVars, tlog, cbObs>>

\* app.py:106-113 (connect), 131 (add_device from connect_device),
\* 148 (remove_device from disconnect_device), and the three handlers above
MirrorNext ==
    \/ handle_connect
    \/ on_disconnect
    \/ \E d \in Devices :
          add_device(d) \/ remove_device(d) \/ on_start_mirror(d)
             \/ on_stop_mirror(d)

MirrorSpec == Init /\ [][MirrorNext]_vars

\* C22: with the handlers run one at a time, at most one registry entry is
\* mirroring after any sequence of events, and after a start_mirror event no
\* entry that was mirroring beside the requested one still is, whether the
\* new start succeeded or failed.
C22_AtMostOneMirroring ==
    /\ Cardinality({ d \in Devices : Mirroring(d) }) <= 1
    /\ regLast.op = "on_start_mirror"
          => \A x \in regLast.others : ~Mirroring(x)

C22_Witness ==
    /\ regLast.op = "on_start_mirror"
    /\ regLast.others # {}
    /\ regLast.started = "false"
    /\ \A d \in Devices : devices[d] # Absent /\ ~devices[d].is_mirroring

----------------------------------------------------------------------------
(* The video receive worker once the stop flag is up.                      *)

VideoNext ==
    \/ StartStep \/ StopCall \/ StopStep
    \/ Launcher \/ ProcessExits \/ WorkerObserved

\* the session with the callback invocations counted
VideoSpec == Init /\ [][VideoNext]_vars

\* C23: with the stop flag set, the video receive worker hands at most one
\* further chunk to the callback, leaves its loop at the next test of the
\* flag without starting another read, and never calls the callback with an
\* empty chunk.
C23_AtMostOneAfterStop ==
    /\ [](cbObs.after <= 1 /\ ~cbObs.empty)
    /\ [][(stop /\ thr["video"] = "loop" /\ thr'["video"] # "loop")
             => thr'["video"] = "done"]_vars

C23_Witness ==
    /\ stop
    /\ cbObs.after = 1
    /\ thr["video"] = "loop"
    /\ pc = "t_join"

====
